---------------------------- MODULE Spec2Model ----------------------------
(***************************************************************************)
(* Wholecell API proxy (src/wholecell-proxy.py): process start-up, the     *)
(* upstream client make_wholecell_request and the seven Flask routes.      *)
(*                                                                         *)
(* Text the code only passes around (messages, JSON strings, the base URL) *)
(* is a TLA+ string.  Text the code builds or that is taken apart again    *)
(* (credentials, identifiers, query strings) is a sequence of one-character*)
(* strings, so that joining, splitting and base64 are computed.            *)
(***************************************************************************)
EXTENDS Integers, Sequences, FiniteSets, TLC

VARIABLES
    environ,              \* os.environ after load_dotenv(): fixed for the process
    proc,                 \* "boot" | "loaded" | "listening" | "exited"
    exit_code,            \* process exit status once proc = "exited", else -1
    startup_log,          \* ERROR-level records (and tracebacks) written before serving
    listener,             \* the socket app.run() bound, or NoListener
    WHOLECELL_APP_ID,     \* module globals of wholecell-proxy.py
    WHOLECELL_APP_SECRET,
    WHOLECELL_API_BASE,
    WHOLECELL_HEADERS,
    req                   \* one record per worker thread: the request it is serving

vars == <<environ, proc, exit_code, startup_log, listener, WHOLECELL_APP_ID,
          WHOLECELL_APP_SECRET, WHOLECELL_API_BASE, WHOLECELL_HEADERS, req>>

globals == <<WHOLECELL_APP_ID, WHOLECELL_APP_SECRET, WHOLECELL_API_BASE,
             WHOLECELL_HEADERS>>

startup == <<environ, proc, exit_code, startup_log, listener>>

-----------------------------------------------------------------------------
(* Bounds of the model. *)

\* most key/value pairs in one inbound query string
MaxArgs == 2

\* worker threads serving requests at the same time (SpecConcurrent)
MaxInflight == 2

-----------------------------------------------------------------------------
(* Python values: None, str, int, bool, list, dict. *)

PyNone == [t |-> "None"]

PyStr(s) == [t |-> "str", s |-> s]

PyChars(cs) == [t |-> "chars", cs |-> cs]

PyInt(n) == [t |-> "int", n |-> n]

PyBool(b) == [t |-> "bool", b |-> b]

PyList(items) == [t |-> "list", items |-> items]

PyDict(f) == [t |-> "dict", f |-> f]

EmptyDict == PyDict([k \in {} |-> PyNone])

\* bool(v) / `if v:` / `not v`
Truthy(v) ==
    CASE v.t = "None"  -> FALSE
      [] v.t = "str"   -> v.s # ""
      [] v.t = "chars" -> v.cs # <<>>
      [] v.t = "int"   -> v.n # 0
      [] v.t = "bool"  -> v.b
      [] v.t = "list"  -> Len(v.items) > 0
      [] v.t = "dict"  -> DOMAIN v.f # {}

\* isinstance(v, dict), isinstance(v, list)
IsDict(v) == v.t = "dict"

IsList(v) == v.t = "list"

\* type(v).__name__
TypeName(v) ==
    CASE v.t = "None"  -> "NoneType"
      [] v.t = "str"   -> "str"
      [] v.t = "chars" -> "str"
      [] v.t = "int"   -> "int"
      [] v.t = "bool"  -> "bool"
      [] v.t = "list"  -> "list"
      [] v.t = "dict"  -> "dict"

\* d.get(key) and d.get(key, default) on a dict d
DictGet(d, key, default) == IF key \in DOMAIN d.f THEN d.f[key] ELSE default

\* hasattr(v, "get"): only a dict has .get; on anything else item.get raises
\* AttributeError
HasGet(v) == v.t = "dict"

-----------------------------------------------------------------------------
(* Text as characters. *)

RECURSIVE Join(_, _)
\* sep.join(parts)
Join(sep, parts) ==
    IF parts = <<>> THEN <<>>
    ELSE IF Len(parts) = 1 THEN parts[1]
    ELSE parts[1] \o sep \o Join(sep, Tail(parts))

\* ord(c) of the characters credentials are drawn from
Ord(c) ==
    CASE c = "i" -> 105
      [] c = "d" -> 100
      [] c = "s" -> 115
      [] c = "p" -> 112
      [] c = "w" -> 119
      [] c = ":" -> 58
      [] c = "N" -> 78
      [] c = "o" -> 111
      [] c = "n" -> 110
      [] c = "e" -> 101
      [] c = "U+00E9" -> 233

\* s.encode('ascii'): the bytes, or UnicodeEncodeError
AsciiEncodable(cs) == \A i \in 1..Len(cs) : Ord(cs[i]) < 128

AsciiEncode(cs) == [i \in 1..Len(cs) |-> Ord(cs[i])]

B64Alphabet ==
    <<"A", "B", "C", "D", "E", "F", "G", "H", "I", "J", "K", "L", "M", "N", "O",
      "P", "Q", "R", "S", "T", "U", "V", "W", "X", "Y", "Z", "a", "b", "c", "d",
      "e", "f", "g", "h", "i", "j", "k", "l", "m", "n", "o", "p", "q", "r", "s",
      "t", "u", "v", "w", "x", "y", "z", "0", "1", "2", "3", "4", "5", "6", "7",
      "8", "9", "+", "/">>

B64Char(sextet) == B64Alphabet[sextet + 1]

RECURSIVE b64encode(_)
\* base64.b64encode(bytes).decode('ascii'): three bytes to four characters,
\* the last group padded with "="
b64encode(bytes) ==
    IF Len(bytes) = 0 THEN <<>>
    ELSE IF Len(bytes) = 1 THEN
        <<B64Char(bytes[1] \div 4), B64Char((bytes[1] % 4) * 16), "=", "=">>
    ELSE IF Len(bytes) = 2 THEN
        <<B64Char(bytes[1] \div 4),
          B64Char((bytes[1] % 4) * 16 + bytes[2] \div 16),
          B64Char((bytes[2] % 16) * 4), "=">>
    ELSE
        <<B64Char(bytes[1] \div 4),
          B64Char((bytes[1] % 4) * 16 + bytes[2] \div 16),
          B64Char((bytes[2] % 16) * 4 + bytes[3] \div 64),
          B64Char(bytes[3] % 64)>>
        \o b64encode(SubSeq(bytes, 4, Len(bytes)))


-----------------------------------------------------------------------------
(* The process environment and start-up. *)

\* os.environ.get(name) is None when the variable is unset
Unset == PyNone

DEFAULT_API_BASE == "https://api.wholecell.io/api/v1/inventories"

DEFAULT_PORT == 5001

AppIds == {Unset, PyChars(<<>>), PyChars(<<"i">>), PyChars(<<"i", "d">>)}

AppSecrets ==
    {Unset, PyChars(<<>>), PyChars(<<"s">>), PyChars(<<"p", "w">>),
     PyChars(<<"U+00E9">>)}

ApiBases == {Unset, PyStr("http://staging.example/inventories")}

\* PORT as text: unset, a number, not a number
Ports == {Unset, PyStr("8080"), PyStr("http")}

Environments ==
    [WHOLECELL_APP_ID : AppIds, WHOLECELL_APP_SECRET : AppSecrets,
     WHOLECELL_API_BASE : ApiBases, PORT : Ports]

\* os.environ.get(name, default)
EnvGet(name, default) ==
    IF environ[name] = Unset THEN default ELSE environ[name]

NoListener == [bound |-> FALSE]

NoHeaders == [bound |-> FALSE]

CONFIG_ERROR ==
    "WHOLECELL_APP_ID and WHOLECELL_APP_SECRET must be set. Copy .env.example to .env and fill in your credentials."

BasicPrefix == <<"B", "a", "s", "i", "c", " ">>

\* the check written with `and`: one secret alone would pass
CredentialsMissing_And(app_id, app_secret) ==
    ~Truthy(app_id) /\ ~Truthy(app_secret)

\* line 37: the credential check that ends the process
CredentialsMissing(app_id, app_secret) ==
    ~Truthy(app_id) \/ ~Truthy(app_secret)

\* f"{v}" of a str or of None
Format(v) == IF v.t = "None" THEN <<"N", "o", "n", "e">> ELSE v.cs

\* lines 42-51: the header bundle sent on every upstream call
BuildHeaders(app_id, app_secret) ==
    LET auth_string == Format(app_id) \o <<":">> \o Format(app_secret)
        auth_b64 == b64encode(AsciiEncode(auth_string))
    IN  [bound |-> TRUE,
         Authorization |-> BasicPrefix \o auth_b64,
         XAppId |-> app_id,
         Accept |-> "application/json"]

\* int(text) of the PORT variable: digits only
IsIntText(v) == v.t = "int" \/ (v.t = "str" /\ v.s \in {"8080"})

IntOf(v) == IF v.t = "int" THEN v.n ELSE 8080

idle ==
    [pc |-> "idle", route |-> "", args |-> <<>>, esn |-> <<>>, calls |-> <<>>,
     answers |-> <<>>, outcomes |-> <<>>, results |-> <<>>,
     response |-> [status |-> 0]]

Init ==
    /\ environ \in Environments
    /\ proc = "boot"
    /\ exit_code = -1
    /\ startup_log = <<>>
    /\ listener = NoListener
    /\ WHOLECELL_APP_ID = PyNone
    /\ WHOLECELL_APP_SECRET = PyNone
    /\ WHOLECELL_API_BASE = PyNone
    /\ WHOLECELL_HEADERS = NoHeaders
    /\ req = [s \in 1..1 |-> idle]

\* lines 19-51: the module body, run once when the interpreter loads the file
module_init ==
    /\ proc = "boot"
    /\ LET app_id == environ.WHOLECELL_APP_ID
           app_secret == environ.WHOLECELL_APP_SECRET
           api_base == EnvGet("WHOLECELL_API_BASE", PyStr(DEFAULT_API_BASE))
       IN  /\ WHOLECELL_APP_ID' = app_id
           /\ WHOLECELL_APP_SECRET' = app_secret
           /\ WHOLECELL_API_BASE' = api_base
           /\ IF CredentialsMissing(app_id, app_secret) THEN
                  \* logger.error(...); sys.exit(1)
                  /\ startup_log' = Append(startup_log, CONFIG_ERROR)
                  /\ proc' = "exited"
                  /\ exit_code' = 1
                  /\ WHOLECELL_HEADERS' = WHOLECELL_HEADERS
              ELSE IF ~AsciiEncodable(Format(app_id) \o <<":">> \o Format(app_secret)) THEN
                  \* auth_string.encode('ascii') raises: the interpreter prints
                  \* the traceback and exits with status 1
                  /\ startup_log' = Append(startup_log, "UnicodeEncodeError")
                  /\ proc' = "exited"
                  /\ exit_code' = 1
                  /\ WHOLECELL_HEADERS' = WHOLECELL_HEADERS
              ELSE
                  /\ WHOLECELL_HEADERS' = BuildHeaders(app_id, app_secret)
                  /\ proc' = "loaded"
                  /\ UNCHANGED <<startup_log, exit_code>>
    /\ UNCHANGED <<environ, listener, req>>

\* lines 316-330: the __main__ block
main ==
    /\ proc = "loaded"
    /\ LET port == EnvGet("PORT", PyInt(DEFAULT_PORT))
       IN  IF IsIntText(port) THEN
               \* app.run(host='0.0.0.0', port=port, debug=debug)
               /\ listener' = [bound |-> TRUE, host |-> "0.0.0.0", port |-> IntOf(port)]
               /\ proc' = "listening"
               /\ UNCHANGED <<startup_log, exit_code>>
           ELSE
               \* int('http') raises ValueError before app.run
               /\ startup_log' = Append(startup_log, "ValueError")
               /\ proc' = "exited"
               /\ exit_code' = 1
               /\ UNCHANGED listener
    /\ UNCHANGED <<environ, req>>
    /\ UNCHANGED globals

-----------------------------------------------------------------------------
(* What the upstream service, or the network on the way to it, does with    *)
(* one requests.get call.                                                   *)

FullItem ==
    PyDict([k \in {"esn", "product", "product_variation", "total_price_paid"} |->
        CASE k = "esn" -> PyStr("X")
          [] k = "product" -> PyDict([j \in {"model"} |-> PyStr("M1")])
          [] k = "product_variation" -> PyDict([j \in {"grade"} |-> PyStr("A")])
          [] k = "total_price_paid" -> PyInt(10)])

\* no "product" key
ItemWithoutProduct ==
    PyDict([k \in {"esn", "product_variation", "total_price_paid"} |-> FullItem.f[k]])

\* "product" is text and "product_variation" is null
ItemWithBadShapes ==
    PyDict([k \in {"esn", "product", "product_variation"} |->
        CASE k = "esn" -> PyStr("X")
          [] k = "product" -> PyStr("M1")
          [] k = "product_variation" -> PyNone])

\* json.loads('null') is None
JsonBodies ==
    {FullItem, ItemWithoutProduct, ItemWithBadShapes, EmptyDict,
     PyList(<<FullItem>>), PyList(<<>>), PyList(<<PyInt(1)>>),
     PyList(<<PyNone>>), PyNone, PyInt(7)}

Json(value) == [json |-> TRUE, value |-> value]

\* a body response.json() cannot parse (empty, HTML, truncated)
NotJson == [json |-> FALSE]

HttpResponse(status, body) == [k |-> "response", status |-> status, body |-> body]

Raises(exc) == [k |-> "raise", exc |-> exc]

\* the classes an exception is an instance of (requests/exceptions.py)
Bases(exc) ==
    CASE exc = "ReadTimeout" ->
            {"ReadTimeout", "Timeout", "RequestException", "Exception"}
      [] exc = "ConnectTimeout" ->
            {"ConnectTimeout", "ConnectionError", "Timeout", "RequestException",
             "Exception"}
      [] exc = "ConnectionError" ->
            {"ConnectionError", "RequestException", "Exception"}
      [] exc = "TooManyRedirects" ->
            {"TooManyRedirects", "RequestException", "Exception"}
      [] exc = "JSONDecodeError" ->
            {"JSONDecodeError", "ValueError", "Exception"}

\* str(e)
ExcMessage(exc) ==
    CASE exc = "ReadTimeout" -> "Read timed out. (read timeout=30)"
      [] exc = "ConnectTimeout" -> "Connection to api.wholecell.io timed out. (connect timeout=30)"
      [] exc = "ConnectionError" -> "Connection aborted."
      [] exc = "TooManyRedirects" -> "Exceeded 30 redirects."
      [] exc = "JSONDecodeError" -> "Expecting value: line 1 column 1 (char 0)"

Behaviours ==
    {HttpResponse(200, Json(v)) : v \in JsonBodies}
      \cup {HttpResponse(200, NotJson)}
      \cup {HttpResponse(st, NotJson) : st \in {401, 404, 503}}
      \cup {Raises(e) : e \in {"ReadTimeout", "ConnectTimeout", "ConnectionError",
                               "TooManyRedirects"}}

-----------------------------------------------------------------------------
(* The upstream client. *)

REQUEST_TIMEOUT == 30

\* the call sent without the credential headers
requests_get_Bare(url, params) ==
    [url |-> url, headers |-> [bound |-> TRUE, Accept |-> "application/json"],
     params |-> params, timeout |-> REQUEST_TIMEOUT]

\* lines 70-75: requests.get(url, headers=WHOLECELL_HEADERS, params=params, timeout=30)
requests_get(url, params) ==
    [url |-> url, headers |-> WHOLECELL_HEADERS, params |-> params,
     timeout |-> REQUEST_TIMEOUT]

Returned(success, data, error) ==
    [raised |-> FALSE, success |-> success, data |-> data, error |-> error]

Propagates(exc) ==
    [raised |-> TRUE, success |-> FALSE, data |-> PyNone, error |-> PyStr(exc)]

\* the except clauses with ConnectionError tried before Timeout
HandleException_ConnectionFirst(exc) ==
    IF "ConnectionError" \in Bases(exc) THEN
        Returned(FALSE, PyNone, PyStr("Could not connect to Wholecell API"))
    ELSE IF "Timeout" \in Bases(exc) THEN
        Returned(FALSE, PyNone, PyStr("Request timed out"))
    ELSE IF "Exception" \in Bases(exc) THEN
        Returned(FALSE, PyNone, PyStr(ExcMessage(exc)))
    ELSE Propagates(exc)

\* lines 93-101: the except clauses, tried in the order written
HandleException(exc) ==
    IF "Timeout" \in Bases(exc) THEN
        Returned(FALSE, PyNone, PyStr("Request timed out"))
    ELSE IF "ConnectionError" \in Bases(exc) THEN
        Returned(FALSE, PyNone, PyStr("Could not connect to Wholecell API"))
    ELSE IF "Exception" \in Bases(exc) THEN
        Returned(FALSE, PyNone, PyStr(ExcMessage(exc)))
    ELSE Propagates(exc)

\* the status chain without its 401 branch, and response.json() left
\* outside the try block
HandleResponse_No401(status, body) ==
    IF status = 200 THEN
        IF body.json THEN Returned(TRUE, body.value, PyNone)
        ELSE Propagates("JSONDecodeError")
    ELSE IF status = 404 THEN Returned(FALSE, PyNone, PyStr("Not found"))
    ELSE Returned(FALSE, PyNone, PyStr("API error: " \o ToString(status)))

\* lines 77-91: the status code of a response that arrived
HandleResponse(status, body) ==
    IF status = 200 THEN
        IF body.json THEN Returned(TRUE, body.value, PyNone)
        ELSE HandleException("JSONDecodeError")    \* response.json() raises
    ELSE IF status = 401 THEN Returned(FALSE, PyNone, PyStr("Authentication failed"))
    ELSE IF status = 404 THEN Returned(FALSE, PyNone, PyStr("Not found"))
    ELSE Returned(FALSE, PyNone, PyStr("API error: " \o ToString(status)))

\* lines 54-101: what make_wholecell_request returns when requests.get
\* behaves as b
make_wholecell_request(b) ==
    IF b.k = "raise" THEN HandleException(b.exc)
    ELSE HandleResponse(b.status, b.body)

-----------------------------------------------------------------------------
(* Inbound requests. *)

ArgKeys == {<<"p">>, <<"s">>}

ArgValues == {<<"1">>, <<"a", "&", "k", "=", "v">>}

\* request.args as Werkzeug decoded it: key/value pairs in the order given,
\* a key possibly more than once
InboundArgs == UNION {[1..n -> ArgKeys \X ArgValues] : n \in 0..MaxArgs}

\* the <esn> path segment
Esns == {<<"E", "1">>, <<"9", "&", "x">>}

known_imeis ==
    << <<"H", "9", "5", "D", "H", "M", "F", "9", "Q", "1", "G", "C">>,
       <<"F", "9", "F", "G", "5", "X", "A", "J", "Q", "1", "G", "C">>,
       <<"F", "9", "G", "G", "5", "B", "X", "X", "Q", "1", "G", "C">> >>

\* datetime.utcnow().isoformat(): the clock is not modelled
Timestamp == "utcnow"

\* line 140: dict(request.args) keeps, for each key, its first value, in the
\* order the keys first appear (dict() reads a MultiDict through keys() and
\* __getitem__, which returns the first value of a key)
DictOfArgs(args) ==
    SelectSeq([i \in 1..Len(args) |-> [i |-> i, k |-> args[i][1], v |-> args[i][2]]],
              LAMBDA e : \A j \in 1..(e.i - 1) : args[j][1] # e.k)

\* lines 142-145: the URL of the list call
\* '&'.join(f"{k}={v}" for k, v in params.items()) appended after "?"
InventoryUrl(base, params) ==
    IF Len(params) > 0 THEN
        [base |-> base, has_query |-> TRUE,
         query |-> Join(<<"&">>, [i \in 1..Len(params) |->
                                     params[i].k \o <<"=">> \o params[i].v])]
    ELSE [base |-> base, has_query |-> FALSE, query |-> <<>>]

\* lines 172, 202, 259: f"{WHOLECELL_API_BASE}?esn={esn}"
EsnUrl(base, esn) ==
    [base |-> base, has_query |-> TRUE, query |-> <<"e", "s", "n", "=">> \o esn]

\* jsonify(...) with the default status
Ok(body) == [status |-> 200, body |-> body]

\* jsonify(...), code
WithStatus(body, code) == [status |-> code, body |-> body]

\* Flask's answer when a view function raises: 500 Internal Server Error
Flask500(exc) ==
    [status |-> 500, body |-> [unhandled |-> exc]]

\* the comparison made against the HTTP reason phrase instead of the
\* client's message
EsnFailureStatus_Reason(error) == IF error = PyStr("Not Found") THEN 404 ELSE 500

\* lines 183-188 and 237-242: 404 if error == "Not found" else 500
EsnFailureStatus(error) == IF error = PyStr("Not found") THEN 404 ELSE 500

Busy(s) == req[s].pc = "wait"

\* a worker takes the next request once it has answered the last one
Free(s) == proc = "listening" /\ req[s].pc \in {"idle", "done"}

Answer(s, route, response) ==
    req' = [req EXCEPT ![s] = [idle EXCEPT !.pc = "done", !.route = route,
                                           !.response = response]]

\* lines 104-118
home(s) ==
    /\ Free(s)
    /\ Answer(s, "/", Ok([status |-> "running", service |-> "Wholecell API Proxy",
                          version |-> "1.0.0"]))
    /\ UNCHANGED startup
    /\ UNCHANGED globals

\* lines 121-128
health_check(s) ==
    /\ Free(s)
    /\ Answer(s, "/api/health",
              Ok([status |-> "healthy", timestamp |-> Timestamp,
                  api_configured |-> Truthy(WHOLECELL_APP_ID)
                                       /\ Truthy(WHOLECELL_APP_SECRET)]))
    /\ UNCHANGED startup
    /\ UNCHANGED globals

\* the body with the application id itself in place of the flag
ConfigBody_Leak(app_id, app_secret, api_base) ==
    [api_base |-> api_base,
     app_id_configured |-> app_id,
     app_secret_configured |-> Truthy(app_secret)]

\* lines 309-313: the body of /api/config
ConfigBody(app_id, app_secret, api_base) ==
    [api_base |-> api_base,
     app_id_configured |-> Truthy(app_id),
     app_secret_configured |-> Truthy(app_secret)]

\* lines 303-313
get_config(s) ==
    /\ Free(s)
    /\ Answer(s, "/api/config",
              Ok(ConfigBody(WHOLECELL_APP_ID, WHOLECELL_APP_SECRET,
                            WHOLECELL_API_BASE)))
    /\ UNCHANGED startup
    /\ UNCHANGED globals

\* the handler has called make_wholecell_request and waits in requests.get
Call(s, route, args, esn, url) ==
    req' = [req EXCEPT ![s] = [idle EXCEPT !.pc = "wait", !.route = route,
                                           !.args = args, !.esn = esn,
                                           !.calls = <<requests_get(url, PyNone)>>]]

\* requests.get has returned or raised as b; the handler answers
Return(s, b, response) ==
    req' = [req EXCEPT ![s].pc = "done",
                       ![s].answers = Append(@, b),
                       ![s].outcomes = Append(@, make_wholecell_request(b)),
                       ![s].response = response]

\* lines 131-149: /api/inventory up to the upstream call
get_all_inventory_call(s, args) ==
    /\ Free(s)
    /\ Call(s, "/api/inventory", args, <<>>,
            InventoryUrl(WHOLECELL_API_BASE, DictOfArgs(args)))
    /\ UNCHANGED startup
    /\ UNCHANGED globals

\* lines 151-159
InventoryResponse(r) ==
    IF r.raised THEN Flask500(r.error.s)
    ELSE IF r.success THEN Ok(r.data)
    ELSE WithStatus([success |-> FALSE, error |-> r.error, timestamp |-> Timestamp],
                    500)

get_all_inventory_return(s, b) ==
    /\ Busy(s)
    /\ req[s].route = "/api/inventory"
    /\ Return(s, b, InventoryResponse(make_wholecell_request(b)))
    /\ UNCHANGED startup
    /\ UNCHANGED globals

\* lines 162-173: /api/inventory/<esn> up to the upstream call
get_inventory_by_esn_call(s, esn) ==
    /\ Free(s)
    /\ Call(s, "/api/inventory/<esn>", <<>>, esn, EsnUrl(WHOLECELL_API_BASE, esn))
    /\ UNCHANGED startup
    /\ UNCHANGED globals

\* lines 175-188
EsnResponse(r, esn) ==
    IF r.raised THEN Flask500(r.error.s)
    ELSE IF r.success THEN
        Ok([success |-> TRUE, data |-> r.data, esn |-> esn, timestamp |-> Timestamp])
    ELSE WithStatus([success |-> FALSE, error |-> r.error, esn |-> esn,
                     timestamp |-> Timestamp],
                    EsnFailureStatus(r.error))

get_inventory_by_esn_return(s, b) ==
    /\ Busy(s)
    /\ req[s].route = "/api/inventory/<esn>"
    /\ Return(s, b, EsnResponse(make_wholecell_request(b), req[s].esn))
    /\ UNCHANGED startup
    /\ UNCHANGED globals

\* lines 191-203: /api/test/<esn> up to the upstream call
test_esn_detailed_call(s, esn) ==
    /\ Free(s)
    /\ Call(s, "/api/test/<esn>", <<>>, esn, EsnUrl(WHOLECELL_API_BASE, esn))
    /\ UNCHANGED startup
    /\ UNCHANGED globals

\* lines 213-224: the structure analysis; list(d.keys()) is kept as the set of keys
Analysis(data) ==
    [response_type |-> TypeName(data), is_list |-> IsList(data), is_dict |-> IsDict(data)]
    @@ (IF IsList(data) THEN
            [list_length |-> Len(data.items)]
            @@ (IF Len(data.items) > 0 THEN
                    [first_item_keys |->
                        IF IsDict(data.items[1])
                        THEN [t |-> "keys", keys |-> DOMAIN data.items[1].f]
                        ELSE PyNone]
                ELSE <<>>)
        ELSE IF IsDict(data) THEN [keys |-> DOMAIN data.f]
        ELSE <<>>)

\* lines 205-242
TestEsnResponse(r, esn) ==
    IF r.raised THEN Flask500(r.error.s)
    ELSE IF r.success THEN
        Ok([success |-> TRUE, data |-> r.data, analysis |-> Analysis(r.data),
            esn |-> esn, timestamp |-> Timestamp,
            message |-> "Check server logs for detailed response structure"])
    ELSE WithStatus([success |-> FALSE, error |-> r.error, esn |-> esn,
                     timestamp |-> Timestamp],
                    EsnFailureStatus(r.error))

test_esn_detailed_return(s, b) ==
    /\ Busy(s)
    /\ req[s].route = "/api/test/<esn>"
    /\ Return(s, b, TestEsnResponse(make_wholecell_request(b), req[s].esn))
    /\ UNCHANGED startup
    /\ UNCHANGED globals

\* lines 245-260: /api/test/known-imeis up to the first upstream call
test_known_imeis_call(s) ==
    /\ Free(s)
    /\ Call(s, "/api/test/known-imeis", <<>>, <<>>,
            EsnUrl(WHOLECELL_API_BASE, known_imeis[1]))
    /\ UNCHANGED startup
    /\ UNCHANGED globals

\* lines 272-277: the item the fields are read from
FirstItem(data) ==
    IF IsList(data) /\ Len(data.items) > 0 THEN data.items[1]
    ELSE IF IsDict(data) THEN data
    ELSE PyNone

\* lines 280-285
Extracted(item) ==
    [esn |-> DictGet(item, "esn", PyNone),
     model |->
        IF IsDict(DictGet(item, "product", PyNone))
        THEN DictGet(DictGet(item, "product", EmptyDict), "model", PyNone)
        ELSE PyNone,
     grade |->
        IF IsDict(DictGet(item, "product_variation", PyNone))
        THEN DictGet(DictGet(item, "product_variation", EmptyDict), "grade", PyNone)
        ELSE PyNone,
     total_price_paid |-> DictGet(item, "total_price_paid", PyNone)]

\* lines 262-288: one pass of the loop body after make_wholecell_request
\* returned r; `if item:` lets any truthy item through to item.get
KnownImeiResult(imei, r) ==
    IF r.success THEN
        LET item == FirstItem(r.data)
            found == [imei |-> imei, success |-> TRUE, found |-> TRUE, data |-> r.data]
        IN  IF ~Truthy(item) THEN [raised |-> FALSE, result |-> found]
            ELSE IF HasGet(item) THEN
                [raised |-> FALSE,
                 result |-> found @@ [extracted |-> Extracted(item)]]
            ELSE [raised |-> TRUE, exc |-> "AttributeError"]
    ELSE [raised |-> FALSE,
          result |-> [imei |-> imei, success |-> FALSE, found |-> FALSE,
                      error |-> r.error]]

\* lines 292-300
KnownImeisSummary(results) ==
    LET success_count == Cardinality({j \in 1..Len(results) : results[j].success})
    IN  Ok([total_tested |-> Len(known_imeis),
            successful |-> success_count,
            failed |-> Len(known_imeis) - success_count,
            results |-> results,
            timestamp |-> Timestamp])

\* lines 257-300: requests.get of the current identifier has returned or
\* raised as b; the loop body runs and either the next call goes out or the
\* summary is returned
test_known_imeis_return(s, b) ==
    /\ Busy(s)
    /\ req[s].route = "/api/test/known-imeis"
    /\ LET i == Len(req[s].answers) + 1
           r == make_wholecell_request(b)
           one == IF r.raised THEN [raised |-> TRUE, exc |-> r.error.s]
                  ELSE KnownImeiResult(known_imeis[i], r)
           logged == [req[s] EXCEPT !.answers = Append(@, b),
                                    !.outcomes = Append(@, r)]
       IN  IF one.raised THEN
               req' = [req EXCEPT ![s] = [logged EXCEPT !.pc = "done",
                                                        !.response = Flask500(one.exc)]]
           ELSE IF i < Len(known_imeis) THEN
               req' = [req EXCEPT ![s] =
                          [logged EXCEPT
                              !.results = Append(@, one.result),
                              !.calls = Append(@, requests_get(
                                  EsnUrl(WHOLECELL_API_BASE, known_imeis[i + 1]),
                                  PyNone))]]
           ELSE
               req' = [req EXCEPT ![s] =
                          [logged EXCEPT
                              !.pc = "done",
                              !.results = Append(@, one.result),
                              !.response =
                                  KnownImeisSummary(Append(req[s].results, one.result))]]
    /\ UNCHANGED startup
    /\ UNCHANGED globals

-----------------------------------------------------------------------------
(* The server, one request at a time. *)

Next ==
    \/ module_init
    \/ main
    \/ \E s \in DOMAIN req : home(s)
    \/ \E s \in DOMAIN req : health_check(s)
    \/ \E s \in DOMAIN req : get_config(s)
    \/ \E s \in DOMAIN req, args \in InboundArgs : get_all_inventory_call(s, args)
    \/ \E s \in DOMAIN req, b \in Behaviours : get_all_inventory_return(s, b)
    \/ \E s \in DOMAIN req, esn \in Esns : get_inventory_by_esn_call(s, esn)
    \/ \E s \in DOMAIN req, b \in Behaviours : get_inventory_by_esn_return(s, b)
    \/ \E s \in DOMAIN req, esn \in Esns : test_esn_detailed_call(s, esn)
    \/ \E s \in DOMAIN req, b \in Behaviours : test_esn_detailed_return(s, b)
    \/ \E s \in DOMAIN req : test_known_imeis_call(s)
    \/ \E s \in DOMAIN req, b \in Behaviours : test_known_imeis_return(s, b)

Spec == Init /\ [][Next]_vars

-----------------------------------------------------------------------------
(* The server with MaxInflight worker threads (app.run serves each request  *)
(* in its own thread), their steps interleaved at the upstream calls.       *)

ServingEnvironments ==
    {e \in Environments :
        /\ e.WHOLECELL_APP_ID = PyChars(<<"i">>)
        /\ e.WHOLECELL_APP_SECRET = PyChars(<<"p", "w">>)
        /\ e.WHOLECELL_API_BASE = Unset
        /\ e.PORT = Unset}

FewArgs == {<<>>, << <<(<<"p">>), (<<"1">>)>> >>}

FewEsns == {<<"E", "1">>}

FewBehaviours ==
    {HttpResponse(200, Json(FullItem)), HttpResponse(404, NotJson),
     Raises("ConnectTimeout")}

InitConcurrent ==
    /\ environ \in ServingEnvironments
    /\ proc = "boot"
    /\ exit_code = -1
    /\ startup_log = <<>>
    /\ listener = NoListener
    /\ WHOLECELL_APP_ID = PyNone
    /\ WHOLECELL_APP_SECRET = PyNone
    /\ WHOLECELL_API_BASE = PyNone
    /\ WHOLECELL_HEADERS = NoHeaders
    /\ req = [s \in 1..MaxInflight |-> idle]

NextConcurrent ==
    \/ module_init
    \/ main
    \/ \E s \in DOMAIN req : home(s)
    \/ \E s \in DOMAIN req : health_check(s)
    \/ \E s \in DOMAIN req : get_config(s)
    \/ \E s \in DOMAIN req, args \in FewArgs : get_all_inventory_call(s, args)
    \/ \E s \in DOMAIN req, b \in FewBehaviours : get_all_inventory_return(s, b)
    \/ \E s \in DOMAIN req, esn \in FewEsns : get_inventory_by_esn_call(s, esn)
    \/ \E s \in DOMAIN req, b \in FewBehaviours : get_inventory_by_esn_return(s, b)
    \/ \E s \in DOMAIN req, esn \in FewEsns : test_esn_detailed_call(s, esn)
    \/ \E s \in DOMAIN req, b \in FewBehaviours : test_esn_detailed_return(s, b)
    \/ \E s \in DOMAIN req : test_known_imeis_call(s)
    \/ \E s \in DOMAIN req, b \in FewBehaviours : test_known_imeis_return(s, b)

SpecConcurrent == InitConcurrent /\ [][NextConcurrent]_vars

-----------------------------------------------------------------------------
(* Helpers of the properties. *)

Range(seq) == {seq[i] : i \in 1..Len(seq)}

Slots == DOMAIN req

Done(s) == req[s].pc = "done"

SecretsPresent(e) == Truthy(e.WHOLECELL_APP_ID) /\ Truthy(e.WHOLECELL_APP_SECRET)

EsnRoutes == {"/api/inventory/<esn>", "/api/test/<esn>"}

SingleCallRoutes == {"/api/inventory"} \cup EsnRoutes

BatchRoute == "/api/test/known-imeis"

IsStatus(b, status) == b.k = "response" /\ b.status = status

\* the upstream answered 200 with a body that is JSON
IsJson200(b) == IsStatus(b, 200) /\ b.body.json

IsTimeout(b) == b.k = "raise" /\ b.exc \in {"ReadTimeout", "ConnectTimeout"}

RECURSIVE SplitOn(_, _, _)
\* text.split(sep) for a one-character sep; cur is the piece being read
SplitOn(text, sep, cur) ==
    IF text = <<>> THEN <<cur>>
    ELSE IF Head(text) = sep THEN <<cur>> \o SplitOn(Tail(text), sep, <<>>)
    ELSE SplitOn(Tail(text), sep, Append(cur, Head(text)))

\* where the first "=" of a piece is, or 0
FirstEq(piece) ==
    IF \E i \in 1..Len(piece) : piece[i] = "="
    THEN CHOOSE i \in 1..Len(piece) :
            piece[i] = "=" /\ \A j \in 1..(i - 1) : piece[j] # "="
    ELSE 0

\* the key/value pairs an HTTP server reads from a query string: pieces
\* between "&", each cut at its first "="
ParseQuery(query) ==
    LET pieces == SelectSeq(SplitOn(query, "&", <<>>), LAMBDA p : p # <<>>)
    IN  [i \in 1..Len(pieces) |->
            IF FirstEq(pieces[i]) = 0 THEN <<pieces[i], <<>>>>
            ELSE <<SubSeq(pieces[i], 1, FirstEq(pieces[i]) - 1),
                   SubSeq(pieces[i], FirstEq(pieces[i]) + 1, Len(pieces[i]))>>]

\* the key/value pairs the upstream service receives with a call
UpstreamSees(call) ==
    IF call.url.has_query THEN ParseQuery(call.url.query) ELSE <<>>

Occurrences(seq, x) == Cardinality({i \in 1..Len(seq) : seq[i] = x})

SamePairs(a, b) ==
    \A x \in Range(a) \cup Range(b) : Occurrences(a, x) = Occurrences(b, x)

B64Index(c) == CHOOSE i \in 0..63 : B64Alphabet[i + 1] = c

RECURSIVE b64decode(_)
\* the bytes a base64 text stands for
b64decode(text) ==
    IF Len(text) < 4 THEN <<>>
    ELSE LET a == B64Index(text[1])
             b == B64Index(text[2])
             first == a * 4 + b \div 16
         IN  IF text[3] = "=" THEN <<first>>
             ELSE LET c == B64Index(text[3])
                      second == (b % 16) * 16 + c \div 4
                  IN  IF text[4] = "=" THEN <<first, second>>
                      ELSE <<first, second, (c % 4) * 64 + B64Index(text[4])>>
                           \o b64decode(SubSeq(text, 5, Len(text)))

-----------------------------------------------------------------------------
(* Start-up. *)

\* C1: when the application id or the application secret is unset or empty,
\* start-up fails: the process never binds the listener and never serves a
\* request, and once it has left the module body it has exited with a
\* non-zero status after logging the configuration error.  The listener is
\* bound, and requests are served, only with both secrets non-empty.
C1_FailFastWithoutSecrets ==
    /\ ~SecretsPresent(environ) =>
          /\ ~listener.bound
          /\ proc \in {"boot", "exited"}
          /\ \A s \in Slots : req[s].pc = "idle"
          /\ proc = "exited" => exit_code # 0 /\ CONFIG_ERROR \in Range(startup_log)
    /\ (listener.bound \/ proc = "listening" \/ \E s \in Slots : req[s].pc # "idle") =>
          /\ SecretsPresent(environ)
          /\ Truthy(WHOLECELL_APP_ID)
          /\ Truthy(WHOLECELL_APP_SECRET)

\* the id is set, the secret is empty, and the process has exited with status 1
C1_Witness ==
    /\ Truthy(environ.WHOLECELL_APP_ID)
    /\ environ.WHOLECELL_APP_SECRET = PyChars(<<>>)
    /\ proc = "exited"
    /\ exit_code = 1
    /\ startup_log = <<CONFIG_ERROR>>

-----------------------------------------------------------------------------
(* /api/inventory. *)

\* C2: on GET /api/inventory the single upstream call carries every inbound
\* key/value pair unmodified (same keys, same values, nothing added, dropped
\* or split), and an upstream 200 gives local status 200 with the upstream
\* JSON body itself as the body.
C2_ForwardsEveryPairUnmodified ==
    \A s \in Slots :
        (req[s].route = "/api/inventory" /\ req[s].pc \in {"wait", "done"}) =>
            /\ Len(req[s].calls) = 1
            /\ SamePairs(UpstreamSees(req[s].calls[1]), req[s].args)
            /\ (Done(s) /\ IsJson200(req[s].answers[1])) =>
                  /\ req[s].response.status = 200
                  /\ req[s].response.body = req[s].answers[1].body.value

-----------------------------------------------------------------------------
(* /api/inventory/<esn> and /api/test/<esn>. *)

\* C3: on the two identifier routes an upstream 200 (with its JSON body)
\* gives local 200 with success true, the data and the esn as given; an
\* upstream 404 gives local 404 with success false; every other outcome
\* (401, another status, timeout, connection failure, any other exception)
\* gives local 500 with success false; the local status is 404 only when the
\* upstream answered 404.
C3_EsnStatusMapping ==
    \A s \in Slots :
        (Done(s) /\ req[s].route \in EsnRoutes) =>
            LET b == req[s].answers[1]
                out == req[s].response
            IN  /\ "unhandled" \notin DOMAIN out.body
                /\ out.body.esn = req[s].esn
                /\ IsJson200(b) =>
                      /\ out.status = 200
                      /\ out.body.success = TRUE
                      /\ out.body.data = b.body.value
                /\ IsStatus(b, 404) => out.status = 404 /\ out.body.success = FALSE
                /\ (~IsJson200(b) /\ ~IsStatus(b, 404)) =>
                      out.status = 500 /\ out.body.success = FALSE
                /\ out.status = 404 => IsStatus(b, 404)

\* /api/inventory/<esn> answered 404 for an identifier holding "&", echoed
\* as given
C3_Witness ==
    \E s \in Slots :
        /\ Done(s)
        /\ req[s].route = "/api/inventory/<esn>"
        /\ req[s].esn = <<"9", "&", "x">>
        /\ IsStatus(req[s].answers[1], 404)
        /\ req[s].response.status = 404
        /\ req[s].response.body.esn = <<"9", "&", "x">>

-----------------------------------------------------------------------------
(* /api/test/known-imeis. *)

\* C4: whatever the three upstream calls do, GET /api/test/known-imeis
\* answers 200 with total_tested = 3, successful + failed = 3 and three
\* results in the order of the identifier list.
C4_BatchAlways200 ==
    \A s \in Slots :
        (Done(s) /\ req[s].route = BatchRoute) =>
            /\ req[s].response.status = 200
            /\ req[s].response.body.total_tested = 3
            /\ req[s].response.body.successful + req[s].response.body.failed = 3
            /\ Len(req[s].response.body.results) = 3
            /\ \A i \in 1..3 : req[s].response.body.results[i].imei = known_imeis[i]

\* C5: in the batch route the field extraction never raises: every upstream
\* success gets its result entry, with the four fields of an object item and
\* null for a field that is absent or of the wrong shape, whatever the shape
\* of the payload or of its first element.
C5_ExtractionNeverRaises ==
    \A s \in Slots :
        req[s].route = BatchRoute =>
            /\ Done(s) => "unhandled" \notin DOMAIN req[s].response.body
            /\ \A i \in 1..Len(req[s].outcomes) :
                  req[s].outcomes[i].success =>
                      /\ i <= Len(req[s].results)
                      /\ req[s].results[i].success
                      /\ req[s].outcomes[i].data = FullItem =>
                            req[s].results[i].extracted =
                                [esn |-> PyStr("X"), model |-> PyStr("M1"),
                                 grade |-> PyStr("A"), total_price_paid |-> PyInt(10)]
                      /\ req[s].outcomes[i].data = ItemWithoutProduct =>
                            req[s].results[i].extracted.model = PyNone

-----------------------------------------------------------------------------
(* /api/config. *)

NonEmptyIds == {v \in AppIds : Truthy(v)}

NonEmptySecrets == {v \in AppSecrets : Truthy(v)}

\* C6: the body of GET /api/config holds api_base and the two flags and
\* nothing else, and is the same for every pair of non-empty secret values
\* with the same base URL: it never carries the id or the secret.
C6_ConfigHidesSecrets ==
    \A s \in Slots :
        (Done(s) /\ req[s].route = "/api/config") =>
            /\ req[s].response.status = 200
            /\ DOMAIN req[s].response.body =
                  {"api_base", "app_id_configured", "app_secret_configured"}
            /\ \A id \in NonEmptyIds, secret \in NonEmptySecrets :
                  req[s].response.body = ConfigBody(id, secret, WHOLECELL_API_BASE)
            /\ req[s].response.body.api_base = WHOLECELL_API_BASE
            /\ req[s].response.body.app_id_configured = TRUE
            /\ req[s].response.body.app_secret_configured = TRUE

\* /api/config answered in a process whose secrets are "id" and "pw"
C6_Witness ==
    \E s \in Slots :
        /\ Done(s)
        /\ req[s].route = "/api/config"
        /\ WHOLECELL_APP_ID = PyChars(<<"i", "d">>)
        /\ WHOLECELL_APP_SECRET = PyChars(<<"p", "w">>)
        /\ req[s].response.body.api_base = PyStr(DEFAULT_API_BASE)

-----------------------------------------------------------------------------
(* The upstream client. *)

\* C7: on the three single-call routes an upstream timeout, a connect
\* timeout included, gives local 500 with success false and the timeout
\* message, never the connection-error message.
C7_TimeoutIsNotConnectionError ==
    \A s \in Slots :
        (Done(s) /\ req[s].route \in SingleCallRoutes /\ IsTimeout(req[s].answers[1])) =>
            /\ req[s].response.status = 500
            /\ req[s].response.body.success = FALSE
            /\ req[s].response.body.error = PyStr("Request timed out")
            /\ req[s].response.body.error # PyStr("Could not connect to Wholecell API")

\* /api/inventory answered a connect timeout
C7_Witness ==
    \E s \in Slots :
        /\ Done(s)
        /\ req[s].route = "/api/inventory"
        /\ req[s].answers = <<Raises("ConnectTimeout")>>
        /\ req[s].response.status = 500

\* the outcome the client is to return for upstream behaviour b
C8_Outcome(b, r) ==
    CASE IsJson200(b) ->
            r.success /\ r.data = b.body.value /\ r.error = PyNone
      [] IsStatus(b, 200) /\ ~b.body.json ->
            ~r.success /\ r.error = PyStr("Expecting value: line 1 column 1 (char 0)")
      [] IsStatus(b, 401) -> ~r.success /\ r.error = PyStr("Authentication failed")
      [] IsStatus(b, 404) -> ~r.success /\ r.error = PyStr("Not found")
      [] b.k = "response" /\ b.status \notin {200, 401, 404} ->
            ~r.success /\ r.error = PyStr("API error: " \o ToString(b.status))
      [] IsTimeout(b) -> ~r.success /\ r.error = PyStr("Request timed out")
      [] b.k = "raise" /\ b.exc = "ConnectionError" ->
            ~r.success /\ r.error = PyStr("Could not connect to Wholecell API")
      [] b.k = "raise" /\ b.exc = "TooManyRedirects" ->
            ~r.success /\ r.error = PyStr("Exceeded 30 redirects.")

\* C8: every upstream call returns one outcome and no exception escapes:
\* 200 with a JSON body is success with that body; 401, 404, any other
\* status, a timeout, a connection failure and any other exception (a body
\* that is not JSON included) are failures with their own message.  A
\* success has no error; a failure has a message and no payload.
C8_OutcomePerBehaviour ==
    \A s \in Slots :
        /\ Len(req[s].outcomes) = Len(req[s].answers)
        /\ \A i \in 1..Len(req[s].outcomes) :
              LET r == req[s].outcomes[i]
              IN  /\ ~r.raised
                  /\ C8_Outcome(req[s].answers[i], r)
                  /\ r.success => r.error = PyNone
                  /\ ~r.success =>
                        r.data = PyNone /\ r.error.t = "str" /\ r.error.s # ""

\* one batch request saw a success, an authentication failure and a body
\* that is not JSON
C8_Witness ==
    \E s \in Slots :
        /\ Len(req[s].outcomes) = 3
        /\ req[s].answers[1] = HttpResponse(200, Json(FullItem))
        /\ req[s].outcomes[1].success
        /\ req[s].answers[2] = HttpResponse(401, NotJson)
        /\ req[s].outcomes[2].error = PyStr("Authentication failed")
        /\ req[s].answers[3] = HttpResponse(200, NotJson)
        /\ ~req[s].outcomes[3].success

\* the calls a route makes
CallsOf(route) ==
    IF route \in SingleCallRoutes THEN 1 ELSE IF route = BatchRoute THEN 3 ELSE 0

\* C9: the number of upstream calls of a request is fixed by its route
\* whatever the outcomes: none for /, /api/health and /api/config, one for
\* the three single-call routes, three for the batch route, one after
\* another in the order of the identifier list.
C9_CallsFixedByRoute ==
    \A s \in Slots :
        /\ Len(req[s].calls) - Len(req[s].answers) \in {0, 1}
        /\ Done(s) =>
              /\ Len(req[s].calls) = CallsOf(req[s].route)
              /\ Len(req[s].answers) = Len(req[s].calls)
        /\ req[s].route = BatchRoute =>
              \A i \in 1..Len(req[s].calls) :
                  req[s].calls[i].url.query = <<"e", "s", "n", "=">> \o known_imeis[i]

-----------------------------------------------------------------------------
(* Concurrent requests. *)

\* the header bundle the environment's credentials stand for
CarriesCredentials(headers) ==
    /\ headers.bound
    /\ DOMAIN headers = {"bound", "Authorization", "XAppId", "Accept"}
    /\ SubSeq(headers.Authorization, 1, 6) = BasicPrefix
    /\ b64decode(SubSeq(headers.Authorization, 7, Len(headers.Authorization)))
          = AsciiEncode(environ.WHOLECELL_APP_ID.cs \o <<":">>
                          \o environ.WHOLECELL_APP_SECRET.cs)
    /\ headers.XAppId = environ.WHOLECELL_APP_ID
    /\ headers.Accept = "application/json"

C10_State ==
    proc \in {"loaded", "listening"} =>
        /\ WHOLECELL_APP_ID = environ.WHOLECELL_APP_ID
        /\ WHOLECELL_APP_SECRET = environ.WHOLECELL_APP_SECRET
        /\ WHOLECELL_API_BASE = EnvGet("WHOLECELL_API_BASE", PyStr(DEFAULT_API_BASE))
        /\ CarriesCredentials(WHOLECELL_HEADERS)
        /\ \A s \in Slots : \A i \in 1..Len(req[s].calls) :
              /\ req[s].calls[i].headers = WHOLECELL_HEADERS
              /\ CarriesCredentials(req[s].calls[i].headers)
        /\ \A s1, s2 \in Slots :
              (/\ Done(s1) /\ Done(s2)
               /\ req[s1].route = req[s2].route
               /\ req[s1].args = req[s2].args
               /\ req[s1].esn = req[s2].esn
               /\ req[s1].answers = req[s2].answers) =>
                  req[s1].response = req[s2].response

C10_Step ==
    /\ proc \in {"loaded", "listening"} =>
          /\ WHOLECELL_APP_ID' = WHOLECELL_APP_ID
          /\ WHOLECELL_APP_SECRET' = WHOLECELL_APP_SECRET
          /\ WHOLECELL_API_BASE' = WHOLECELL_API_BASE
          /\ WHOLECELL_HEADERS' = WHOLECELL_HEADERS
    /\ Cardinality({s \in Slots : req'[s] # req[s]}) <= 1

\* C10: once the module body has run, under any interleaving of concurrently
\* served requests the credentials and the header bundle never change, every
\* upstream call carries Authorization: Basic base64(id:secret), X-App-Id and
\* Accept, a step of one request leaves every other request as it is, and
\* requests with the same parameters and the same upstream answers get the
\* same response.
C10_SharedStateImmutable == []C10_State /\ [][C10_Step]_vars

\* two requests in flight at once: one waits in its second batch call while
\* the other has been answered
C10_Witness ==
    \E s1, s2 \in Slots :
        /\ s1 # s2
        /\ req[s1].route = BatchRoute
        /\ req[s1].pc = "wait"
        /\ Len(req[s1].calls) = 2
        /\ Done(s2)
        /\ req[s2].route = "/api/inventory/<esn>"
        /\ Len(req[s2].calls) = 1

=============================================================================
